---------------------------- MODULE Spec2Model ----------------------------
(***************************************************************************)
(* A model of the packet processing engine of src/src/engine.rs: the app   *)
(* network (app_table, link_table), its reconfiguration (configure), the   *)
(* breathe order planner (compute_breathe_order) and the breathe loop      *)
(* (main, breathe, pace_breathing, timeout, now).                          *)
(*                                                                         *)
(* Hash map and hash set iteration (HashMap::iter, HashMap::keys,          *)
(* HashSet::iter) has no defined order: every loop over one is modelled as *)
(* a choice over all orders, so operators that contain such a loop return  *)
(* the SET of results the loop can produce.                                *)
(***************************************************************************)
EXTENDS Integers, Sequences, FiniteSets, TLC

(***************************************************************************)
(* The universe the inputs are drawn from.                                 *)
(***************************************************************************)

\* App names, in ascending (byte-wise) String order, as Vec<String>::sort
\* orders them.
NameOrder == <<"a_io1", "b_t1", "c_t2", "d_t3">>

AppNames == {NameOrder[i] : i \in 1..Len(NameOrder)}

\* The names of the three-app networks.
PlanNames == {"a_io1", "b_t1", "c_t2"}

\* The names used by the reconfiguration specification.
ReconfNames == {"a_io1", "b_t1"}

OutSlots == {"output"}

InSlots == {"input"}

\* Most link specs in one configuration of the reconfiguration specification.
MaxLinks == 2

\* Most link specs in one configuration of a four-app network.
MaxOrderLinks == 4

\* Most link specs in one configuration of the planner specification.
MaxPlanLinks == 4

\* Most packets transmitted onto the links of one app network.
MaxPackets == 1

\* The breaths, the frees and the clock instants of a behaviour.
MaxBreaths == 3

MaxFrees == 2

MaxClock == 2

Range(s) == {s[i] : i \in 1..Len(s)}

Rank(name) == CHOOSE i \in 1..Len(NameOrder) : NameOrder[i] = name

\* Vec<String>::sort on a vector without duplicates: the names of S ascending.
RECURSIVE SortNames(_)
SortNames(S) ==
    IF S = {} THEN <<>>
    ELSE LET least == CHOOSE n \in S : \A m \in S : Rank(n) <= Rank(m)
         IN  <<least>> \o SortNames(S \ {least})

\* HashMap::remove(key)
MapRemove(map, key) == [k \in DOMAIN map \ {key} |-> map[k]]

\* HashMap::insert(key, value)
MapInsert(map, key, value) ==
    [k \in DOMAIN map \cup {key} |-> IF k = key THEN value ELSE map[k]]

EmptyMap == [k \in {} |-> 0]

(***************************************************************************)
(* App configurations and apps.  An app configuration is a value of some   *)
(* type implementing AppConfig; the type decides which hooks the app that  *)
(* new() builds implements, and its Debug output (type name and fields)    *)
(* is its identity.                                                        *)
(***************************************************************************)

\* The app configuration types: the hooks the app each one builds
\* advertises (has_pull, has_push, has_stop), and whether it implements
\* pull and push.  Source, Sink and Tee are apps of the basic_apps module,
\* IO is an app that inhales and exhales, PseudoIO is the app of the
\* breathe_order test, which advertises pull and push and implements
\* neither, Idle is an app with the defaults of the App trait.
AppTypes ==
    [ Source   |-> [has_pull |-> TRUE,  has_push |-> FALSE, has_stop |-> FALSE,
                    pull |-> TRUE,  push |-> FALSE],
      Sink     |-> [has_pull |-> FALSE, has_push |-> TRUE,  has_stop |-> TRUE,
                    pull |-> FALSE, push |-> TRUE],
      Tee      |-> [has_pull |-> FALSE, has_push |-> TRUE,  has_stop |-> FALSE,
                    pull |-> FALSE, push |-> TRUE],
      IO       |-> [has_pull |-> TRUE,  has_push |-> TRUE,  has_stop |-> FALSE,
                    pull |-> TRUE,  push |-> TRUE],
      PseudoIO |-> [has_pull |-> TRUE,  has_push |-> TRUE,  has_stop |-> FALSE,
                    pull |-> FALSE, push |-> FALSE],
      Idle     |-> [has_pull |-> FALSE, has_push |-> FALSE, has_stop |-> FALSE,
                    pull |-> FALSE, push |-> FALSE] ]

AppConf(type, size) == [type |-> type, size |-> size]

\* AppConfig::new: the app instance a configuration builds.
new(conf) == AppTypes[conf.type]

module_path == "engine"

\* AppArg::identity: format!("{}::{:?}", module_path!(), self)
identity(conf) == <<module_path, "::", conf.type, conf.size>>

\* equal comparing the type name only, not the fields that Debug prints.
equal_type_only(x, y) == x.type = y.type

\* AppArg::equal
equal(x, y) == identity(x) = identity(y)

\* config::parse_link: "FROM.OUT -> TO.IN" as (from, output, to, input).
\* A link spec string is modelled by the tuple of its four identifiers.
parse_link(spec) ==
    [from |-> spec[1], output |-> spec[2], to |-> spec[3], input |-> spec[4]]

LinkSpec(from, output, to, input) == <<from, output, to, input>>

\* link::new: an empty link.
new_shared_link == [txpackets |-> 0, txdrop |-> 0, rxpackets |-> 0, npackets |-> 0]


(***************************************************************************)
(* EngineState: the app network.                                           *)
(*   app_table  : name -> AppState [app, conf, input, output]              *)
(*   link_table : link spec -> Link                                        *)
(* A slot of an app (input[slot], output[slot]) holds a reference to a     *)
(* link object (an Rc).  The object that link_table holds under a spec is  *)
(* named by that spec; an object that link_table no longer holds is named  *)
(* Stale(spec).                                                            *)
(***************************************************************************)

Stale(spec) == <<"stale", spec>>

\* AppState, as start_app builds it.
AppState(conf) ==
    [app |-> new(conf), conf |-> conf, input |-> EmptyMap, output |-> EmptyMap]

\* successors: HashMap<String, HashSet<String>>, built from link_table.keys()
BuildSuccessors(link_table) ==
    LET froms == {parse_link(l).from : l \in DOMAIN link_table}
    IN  [u \in froms |->
            {parse_link(l).to : l \in {k \in DOMAIN link_table : parse_link(k).from = u}}]

\* successors.get(name): the set to iterate, empty when there is no entry.
SuccessorsOf(successors, name) ==
    IF name \in DOMAIN successors THEN successors[name] ELSE {}

\* for name in names { successors.remove(name) }
RemoveAll(successors, names) ==
    [u \in DOMAIN successors \ names |-> successors[u]]

\* "Collect initial dependents" without !dependents.contains(successor).
RECURSIVE InitialFrom_unchecked(_, _, _)
InitialFrom_unchecked(remaining, dependents, app_table) ==
    IF remaining = {} THEN {dependents}
    ELSE UNION { InitialFrom_unchecked(remaining \ {successor},
                     IF app_table[successor].app.has_push
                     THEN Append(dependents, successor)
                     ELSE dependents,
                     app_table)
                 : successor \in remaining }

\* "Collect initial dependents", inner loop: the successors of one inhaler,
\* met in any order.
RECURSIVE InitialFrom(_, _, _)
InitialFrom(remaining, dependents, app_table) ==
    IF remaining = {} THEN {dependents}
    ELSE UNION { InitialFrom(remaining \ {successor},
                     IF /\ app_table[successor].app.has_push
                        /\ successor \notin Range(dependents)
                     THEN Append(dependents, successor)
                     ELSE dependents,
                     app_table)
                 : successor \in remaining }

\* "Collect initial dependents", outer loop over inhale from position i.
RECURSIVE InitialDependents(_, _, _, _, _)
InitialDependents(inhale, i, dependents, successors, app_table) ==
    IF i > Len(inhale) THEN {dependents}
    ELSE UNION { InitialDependents(inhale, i + 1, d, successors, app_table)
                 : d \in InitialFrom(SuccessorsOf(successors, inhale[i]),
                                     dependents, app_table) }

\* dependents.retain(|name| name != successor)
Retain(dependents, successor) ==
    LET Keep(name) == name # successor
    IN  SelectSeq(dependents, Keep)

\* The cycle breaking pass, inner loop, without `dependents.len() > 1`.
RECURSIVE SelectFrom_any_length(_, _, _, _)
SelectFrom_any_length(name, remaining, selected, dependents) ==
    IF remaining = {} THEN {<<selected, dependents>>}
    ELSE UNION { IF /\ successor \notin selected
                    /\ successor \in Range(dependents)
                 THEN SelectFrom_any_length(name, remaining \ {successor},
                                 selected \cup {name}, Retain(dependents, successor))
                 ELSE SelectFrom_any_length(name, remaining \ {successor},
                                 selected, dependents)
                 : successor \in remaining }

\* The cycle breaking pass, inner loop: the successors of `name`, met in any
\* order.  A state of the pass is <<selected, dependents>>.
RECURSIVE SelectFrom(_, _, _, _)
SelectFrom(name, remaining, selected, dependents) ==
    IF remaining = {} THEN {<<selected, dependents>>}
    ELSE UNION { IF /\ successor \notin selected
                    /\ successor \in Range(dependents)
                    /\ Len(dependents) > 1
                 THEN SelectFrom(name, remaining \ {successor},
                                 selected \cup {name}, Retain(dependents, successor))
                 ELSE SelectFrom(name, remaining \ {successor},
                                 selected, dependents)
                 : successor \in remaining }

\* The cycle breaking pass, outer loop over dependents.clone() from position i:
\* the sequences that dependents can be when the pass ends.
RECURSIVE BreakCycles(_, _, _, _, _)
BreakCycles(snapshot, i, selected, dependents, successors) ==
    IF i > Len(snapshot) THEN {dependents}
    ELSE UNION { BreakCycles(snapshot, i + 1, r[1], r[2], successors)
                 : r \in SelectFrom(snapshot[i],
                                    SuccessorsOf(successors, snapshot[i]),
                                    selected, dependents) }

\* dependents.sort(): the names of a Vec in ascending order, each as often
\* as the Vec holds it.
RECURSIVE SortVec(_)
SortVec(v) ==
    IF v = <<>> THEN <<>>
    ELSE LET least == CHOOSE x \in Range(v) : \A y \in Range(v) : Rank(x) <= Rank(y)
             IsLeast(x) == x = least
             IsOther(x) == x # least
         IN  SelectSeq(v, IsLeast) \o SortVec(SelectSeq(v, IsOther))

\* "Collect further dependents" without app.app.has_push().
RECURSIVE FurtherFrom_any_app(_, _, _, _)
FurtherFrom_any_app(remaining, dependents, exhale, app_table) ==
    IF remaining = {} THEN {dependents}
    ELSE UNION { FurtherFrom_any_app(remaining \ {successor},
                     IF /\ successor \notin Range(exhale)
                        /\ successor \notin Range(dependents)
                     THEN Append(dependents, successor)
                     ELSE dependents,
                     exhale, app_table)
                 : successor \in remaining }

\* "Collect further dependents", inner loop.
RECURSIVE FurtherFrom(_, _, _, _)
FurtherFrom(remaining, dependents, exhale, app_table) ==
    IF remaining = {} THEN {dependents}
    ELSE UNION { FurtherFrom(remaining \ {successor},
                     IF /\ app_table[successor].app.has_push
                        /\ successor \notin Range(exhale)
                        /\ successor \notin Range(dependents)
                     THEN Append(dependents, successor)
                     ELSE dependents,
                     exhale, app_table)
                 : successor \in remaining }

\* "Collect further dependents", outer loop over exhaled from position i.
RECURSIVE FurtherDependents(_, _, _, _, _, _)
FurtherDependents(exhaled, i, dependents, exhale, successors, app_table) ==
    IF i > Len(exhaled) THEN {dependents}
    ELSE UNION { FurtherDependents(exhaled, i + 1, d, exhale, successors, app_table)
                 : d \in FurtherFrom(SuccessorsOf(successors, exhaled[i]),
                                     dependents, exhale, app_table) }

\* self.exhale after the rounds of the push order loop: the batches appended
\* by `self.exhale.append(&mut dependents)`, one after the other.
RECURSIVE Flatten(_)
Flatten(rounds) ==
    IF rounds = <<>> THEN <<>> ELSE Head(rounds) \o Flatten(Tail(rounds))

\* "Compute sorted push order": while !dependents.is_empty() { ... }.
\* `rounds` holds the batch each past iteration appended to self.exhale; the
\* result is the set of batch sequences the loop can end with.
RECURSIVE PushRounds(_, _, _, _)
PushRounds(rounds, dependents, successors, app_table) ==
    IF dependents = <<>> THEN {rounds}
    ELSE UNION {
           LET exhaled == SortVec(kept)
               rounds2 == Append(rounds, exhaled)
           IN  UNION { PushRounds(rounds2, d, RemoveAll(successors, Range(exhaled)),
                                  app_table)
                       : d \in FurtherDependents(exhaled, 1, <<>>, Flatten(rounds2),
                                                 successors, app_table) }
           : kept \in BreakCycles(dependents, 1, {}, dependents, successors) }

\* The pull apps in descending name order: an iteration order of the app
\* table that no sort puts right.
Inhalers_descending(app_table) ==
    LET s == SortNames({name \in DOMAIN app_table : app_table[name].app.has_pull})
    IN  [i \in 1..Len(s) |-> s[Len(s) + 1 - i]]

\* "Put pull apps in inhalers" and sort them by name.
Inhalers(app_table) ==
    SortNames({name \in DOMAIN app_table : app_table[name].app.has_pull})

\* EngineState::compute_breathe_order, the push order loop: the batch
\* sequences it can go through for this app_table and link_table.
PlannerRounds(app_table, link_table) ==
    LET successors == BuildSuccessors(link_table)
        inhale     == Inhalers(app_table)
    IN  UNION { PushRounds(<<>>, d, RemoveAll(successors, Range(inhale)), app_table)
                : d \in InitialDependents(inhale, 1, <<>>, successors, app_table) }

\* EngineState::compute_breathe_order: the [inhale, exhale] pairs it can
\* leave in the engine state for this app_table and link_table.
compute_breathe_order(app_table, link_table) ==
    { [inhale |-> Inhalers(app_table), exhale |-> Flatten(rounds)]
      : rounds \in PlannerRounds(app_table, link_table) }


(***************************************************************************)
(* The state of the program.                                               *)
(***************************************************************************)
VARIABLES
    app_table,      \* EngineState.app_table
    link_table,     \* EngineState.link_table
    inhale,         \* EngineState.inhale
    exhale,         \* EngineState.exhale
    stats,          \* Engine.stats: [breaths, frees]
    monotonic_now,  \* Engine.monotonic_now: None or the latched instant
    lastfrees,      \* Engine.lastfrees
    sleep,          \* Engine.sleep
    clock,          \* Instant::now(): the monotonic clock
    pc,             \* where the caller of the engine is: "idle" between calls,
                    \* a position inside main, or "panicked"
    run,            \* the locals of the running main
    call,           \* history: the last configure call, its argument, the
                    \* stop_app, App::stop and start_app calls it made per
                    \* app name, and seq, which alternates with every call
    loss            \* a call of loss_rate: its arguments drop and sent, and
                    \* the rate it returned (None until it has returned)

vars == <<app_table, link_table, inhale, exhale, stats, monotonic_now,
          lastfrees, sleep, clock, pc, run, call, loss>>

\* Option: None, and Some(x).
None == <<>>

Some(x) == <<x>>

NoCounts == [name \in AppNames |-> 0]

Bump(counts, name) == [counts EXCEPT ![name] = @ + 1]

(***************************************************************************)
(* configure.  The operators below work on a record `st` of the fields a   *)
(* configure call reads and writes: app_table, link_table, the history     *)
(* counters stops (stop_app calls), hooks (App::stop calls) and starts     *)
(* (start_app calls) per app name, and panicked (an unwrap() failed: the   *)
(* call has ended there, and the later steps do nothing).                  *)
(***************************************************************************)

\* Every reference to the link object of `spec` held by a slot, renamed to ref.
Rename(apps, spec, ref) ==
    [name \in DOMAIN apps |->
        [app    |-> apps[name].app,
         conf   |-> apps[name].conf,
         input  |-> [slot \in DOMAIN apps[name].input |->
                        IF apps[name].input[slot] = spec
                        THEN ref ELSE apps[name].input[slot]],
         output |-> [slot \in DOMAIN apps[name].output |->
                        IF apps[name].output[slot] = spec
                        THEN ref ELSE apps[name].output[slot]]]]

\* app.output.remove(slot), app.output.insert(slot, link) for app `name`:
\* apps with the output slots of `name` replaced by `slots`.
WithOutput(apps, name, slots) ==
    [n \in DOMAIN apps |->
        IF n = name
        THEN [app |-> apps[n].app, conf |-> apps[n].conf,
              input |-> apps[n].input, output |-> slots]
        ELSE apps[n]]

\* The same for the input slots of `name`.
WithInput(apps, name, slots) ==
    [n \in DOMAIN apps |->
        IF n = name
        THEN [app |-> apps[n].app, conf |-> apps[n].conf,
              input |-> slots, output |-> apps[n].output]
        ELSE apps[n]]

\* The engine fields with fields replaced.
WithTables(st, apps, links) ==
    [app_table |-> apps, link_table |-> links, stops |-> st.stops,
     hooks |-> st.hooks, starts |-> st.starts, panicked |-> st.panicked]

Panicked(st) ==
    [app_table |-> st.app_table, link_table |-> st.link_table, stops |-> st.stops,
     hooks |-> st.hooks, starts |-> st.starts, panicked |-> TRUE]

\* EngineState::unlink_apps
unlink_apps(st, spec) ==
    LET s  == parse_link(spec)
        t1 == WithTables(st, Rename(st.app_table, spec, Stale(spec)),
                         MapRemove(st.link_table, spec))
    IN  IF s.from \notin DOMAIN t1.app_table
        THEN Panicked(t1)
        ELSE LET t2 == WithTables(t1,
                          WithOutput(t1.app_table, s.from,
                                     MapRemove(t1.app_table[s.from].output, s.output)),
                          t1.link_table)
             IN  IF s.to \notin DOMAIN t2.app_table
                 THEN Panicked(t2)
                 ELSE WithTables(t2,
                         WithInput(t2.app_table, s.to,
                                   MapRemove(t2.app_table[s.to].input, s.input)),
                         t2.link_table)

\* EngineState::start_app
start_app(st, name, conf) ==
    [app_table  |-> MapInsert(st.app_table, name, AppState(conf)),
     link_table |-> st.link_table,
     stops      |-> st.stops,
     hooks      |-> st.hooks,
     starts     |-> Bump(st.starts, name),
     panicked   |-> st.panicked]

\* stop_app without app_table.remove(name): the hook runs, the entry stays.
stop_app_keeps_entry(st, name) ==
    LET removed == st.app_table[name]
    IN  [app_table  |-> st.app_table,
         link_table |-> st.link_table,
         stops      |-> Bump(st.stops, name),
         hooks      |-> IF removed.app.has_stop THEN Bump(st.hooks, name) ELSE st.hooks,
         starts     |-> st.starts,
         panicked   |-> st.panicked]

\* EngineState::stop_app
stop_app(st, name) ==
    LET removed == st.app_table[name]
    IN  [app_table  |-> MapRemove(st.app_table, name),
         link_table |-> st.link_table,
         stops      |-> Bump(st.stops, name),
         hooks      |-> IF removed.app.has_stop THEN Bump(st.hooks, name) ELSE st.hooks,
         starts     |-> st.starts,
         panicked   |-> st.panicked]

\* EngineState::link_apps
link_apps(st, spec) ==
    LET s  == parse_link(spec)
        t1 == IF spec \in DOMAIN st.link_table
              THEN st
              ELSE WithTables(st, st.app_table,
                              MapInsert(st.link_table, spec, new_shared_link))
    IN  IF s.from \notin DOMAIN t1.app_table
        THEN Panicked(t1)
        ELSE LET t2 == WithTables(t1,
                          WithOutput(t1.app_table, s.from,
                                     MapInsert(t1.app_table[s.from].output, s.output, spec)),
                          t1.link_table)
             IN  IF s.to \notin DOMAIN t2.app_table
                 THEN Panicked(t2)
                 ELSE WithTables(t2,
                         WithInput(t2.app_table, s.to,
                                   MapInsert(t2.app_table[s.to].input, s.input, spec)),
                         t2.link_table)

\* configure, "First determine the links that are going away and remove
\* them": the loop over link_table.clone().keys(), met in any order.
RECURSIVE DropLinks(_, _, _)
DropLinks(st, remaining, config) ==
    IF st.panicked \/ remaining = {} THEN {st}
    ELSE UNION { DropLinks(IF link \notin config.links
                           THEN unlink_apps(st, link) ELSE st,
                           remaining \ {link}, config)
                 : link \in remaining }

\* configure, "Do the same for apps": the loop over the collected keys of
\* app_table.  Each pass reads and removes only the entry of its own name, so
\* the result is the same in every order; the names are taken in name order.
RECURSIVE StopApps(_, _, _)
StopApps(st, names, config) ==
    IF names = <<>> THEN st
    ELSE LET name == Head(names)
             old  == st.app_table[name].conf
         IN  StopApps(IF name \in DOMAIN config.apps
                      THEN IF ~equal(old, config.apps[name])
                           THEN stop_app(st, name) ELSE st
                      ELSE stop_app(st, name),
                      Tail(names), config)

\* configure, "Start new apps": the loop over config.apps.iter(); as above,
\* each pass touches only the entry of its own name.
RECURSIVE StartApps(_, _, _)
StartApps(st, names, config) ==
    IF names = <<>> THEN st
    ELSE LET name == Head(names)
         IN  StartApps(IF name \notin DOMAIN st.app_table
                       THEN start_app(st, name, config.apps[name]) ELSE st,
                       Tail(names), config)

\* configure, "Rebuild links": the loop over config.links.iter(), met in any
\* order.
RECURSIVE RebuildLinks(_, _)
RebuildLinks(st, remaining) ==
    IF st.panicked \/ remaining = {} THEN {st}
    ELSE UNION { RebuildLinks(link_apps(st, link), remaining \ {link})
                 : link \in remaining }

\* Engine::configure, up to "Compute breathe order": the states it can reach.
Reconcile(st, config) ==
    UNION { IF dropped.panicked THEN {dropped}
            ELSE RebuildLinks(
                   StartApps(
                     StopApps(dropped, SortNames(DOMAIN dropped.app_table), config),
                     SortNames(DOMAIN config.apps), config),
                   config.links)
            : dropped \in DropLinks(st, DOMAIN st.link_table, config) }


\* The fields of the engine a configure call works on.
EngineFields ==
    [app_table |-> app_table, link_table |-> link_table,
     stops |-> NoCounts, hooks |-> NoCounts, starts |-> NoCounts,
     panicked |-> FALSE]

\* A configure that computes the breathe order first, from the registries
\* as they are before it stops and starts apps.
configure_orders_first(config) ==
    UNION { IF r.panicked
            THEN {[st |-> r, inhale |-> inhale, exhale |-> exhale]}
            ELSE {[st |-> r, inhale |-> o.inhale, exhale |-> o.exhale]
                  : o \in compute_breathe_order(app_table, link_table)}
            : r \in Reconcile(EngineFields, config) }

\* Engine::configure: the results it can have from the present state, each
\* with the inhale and exhale it leaves.  A call that panics ends before
\* compute_breathe_order and leaves inhale and exhale as they were.
configure(config) ==
    UNION { IF r.panicked
            THEN {[st |-> r, inhale |-> inhale, exhale |-> exhale]}
            ELSE {[st |-> r, inhale |-> o.inhale, exhale |-> o.exhale]
                  : o \in compute_breathe_order(r.app_table, r.link_table)}
            : r \in Reconcile(EngineFields, config) }

EmptyConfig == [apps |-> EmptyMap, links |-> {}]

\* The locals of main, and what the run has done so far (history): breaths0 is
\* stats.breaths at entry, continued and ended count the evaluations of the
\* loop condition that found the run not done and done, idx is the position of
\* breathe in inhale or exhale, hooks are the pull and push calls of the
\* breath in progress, in order, frees0 is stats.frees at the start of the
\* last breath, slept is what the last pace_breathing slept (None: it did not
\* sleep).  idle outlives the run: it counts the pace steps, each after a
\* breath that freed no packet, made one after the other since the sleep
\* level was 0.  latch is the instant of the real clock at the start of the
\* last breath (None: no breath yet), it too outlives the run; nows are the
\* instants now() has returned to the hooks of that breath.
NoRun == [done |-> None, deadline |-> 0, breaths0 |-> 0, continued |-> 0,
          ended |-> 0, idx |-> 0, hooks |-> <<>>, frees0 |-> 0, slept |-> None,
          idle |-> 0, latch |-> None, nows |-> {}]

\* loss_rate has not been called.
NoLoss == [drop |-> 0, sent |-> 0, rate |-> None]

\* Engine::new, with the clock at some instant.
NewEngine ==
    /\ app_table = EmptyMap
    /\ link_table = EmptyMap
    /\ inhale = <<>>
    /\ exhale = <<>>
    /\ stats = [breaths |-> 0, frees |-> 0]
    /\ monotonic_now = None
    /\ lastfrees = 0
    /\ sleep = 0
    /\ clock = 0
    /\ pc = "idle"
    /\ run = NoRun
    /\ call = [op |-> "new", config |-> EmptyConfig, seq |-> 0,
               stops |-> NoCounts, hooks |-> NoCounts, starts |-> NoCounts]

Init == NewEngine /\ loss = NoLoss

\* A call of configure(config) by the program that owns the engine.
Configure(config) ==
    /\ pc = "idle"
    /\ \E r \in configure(config) :
          /\ app_table' = r.st.app_table
          /\ link_table' = r.st.link_table
          /\ inhale' = r.inhale
          /\ exhale' = r.exhale
          /\ pc' = IF r.st.panicked THEN "panicked" ELSE "idle"
          /\ call' = [op |-> "configure", config |-> config,
                      seq |-> 1 - call.seq,
                      stops |-> r.st.stops, hooks |-> r.st.hooks,
                      starts |-> r.st.starts]
    /\ UNCHANGED <<stats, monotonic_now, lastfrees, sleep, clock, run, loss>>

(***************************************************************************)
(* Links.  An app reaches a link through one of its slots; link::transmit  *)
(* and link::receive are what its pull and push hooks call.                *)
(***************************************************************************)

\* The capacity of a link (link::LINK_MAX_PACKETS), scaled down.
LINK_MAX_PACKETS == 1

\* Packets offered to the links of the app network so far.
Offered == LET RECURSIVE Sum(_)
               Sum(S) == IF S = {} THEN 0
                         ELSE LET l == CHOOSE x \in S : TRUE
                              IN  link_table[l].txpackets + link_table[l].txdrop
                                  + Sum(S \ {l})
           IN  Sum(DOMAIN link_table)

\* link::transmit: queue the packet, or drop it when the link is full.
transmit(link) ==
    IF link.npackets >= LINK_MAX_PACKETS
    THEN [link EXCEPT !.txdrop = @ + 1]
    ELSE [link EXCEPT !.txpackets = @ + 1, !.npackets = @ + 1]

\* link::receive: take the next packet off the link.
receive(link) ==
    [link EXCEPT !.rxpackets = @ + 1, !.npackets = @ - 1]

\* An app transmits a packet on the link bound to one of its output slots.
AppTransmit(name, slot) ==
    /\ pc = "idle"
    /\ name \in DOMAIN app_table
    /\ slot \in DOMAIN app_table[name].output
    /\ app_table[name].output[slot] \in DOMAIN link_table
    /\ Offered < MaxPackets
    /\ link_table' = [link_table EXCEPT ![app_table[name].output[slot]] = transmit(@)]
    /\ UNCHANGED <<app_table, inhale, exhale, stats, monotonic_now, lastfrees,
                   sleep, clock, pc, run, call, loss>>

\* An app receives a packet from the link bound to one of its input slots.
AppReceive(name, slot) ==
    /\ pc = "idle"
    /\ name \in DOMAIN app_table
    /\ slot \in DOMAIN app_table[name].input
    /\ app_table[name].input[slot] \in DOMAIN link_table
    /\ link_table[app_table[name].input[slot]].npackets > 0
    /\ link_table' = [link_table EXCEPT ![app_table[name].input[slot]] = receive(@)]
    /\ UNCHANGED <<app_table, inhale, exhale, stats, monotonic_now, lastfrees,
                   sleep, clock, pc, run, call, loss>>

(***************************************************************************)
(* The reconfiguration specification: configure calls, with traffic on the *)
(* links between them.                                                     *)
(***************************************************************************)

\* The configurations each app name can be given: a_io1 can change its size,
\* change its type, and have or not have a stop hook; b_t1 comes and goes.
ReconfConfs ==
    [a_io1 |-> {AppConf("Source", 60), AppConf("Source", 120), AppConf("Sink", 0)},
     b_t1  |-> {AppConf("Sink", 0)}]

ReconfLinkSpecs ==
    {LinkSpec(f, o, t, i) : f \in ReconfNames, o \in OutSlots,
                            t \in ReconfNames, i \in InSlots}

Configs ==
    { [apps |-> a, links |-> l]
      : a \in UNION { {f \in [names -> UNION {ReconfConfs[n] : n \in names}]
                          : \A n \in names : f[n] \in ReconfConfs[n]}
                       : names \in SUBSET ReconfNames },
        l \in {S \in SUBSET ReconfLinkSpecs : Cardinality(S) <= MaxLinks} }

Reconfigure == \E config \in Configs : Configure(config)

Transmit == \E name \in AppNames, slot \in OutSlots : AppTransmit(name, slot)

Receive == \E name \in AppNames, slot \in InSlots : AppReceive(name, slot)

Next == Reconfigure \/ Transmit \/ Receive

Spec == Init /\ [][Next]_vars


(***************************************************************************)
(* Claims about configure, under Spec.                                     *)
(***************************************************************************)

\* The last step was a configure call that returned.
Returned == call.op = "configure" /\ pc # "panicked"

\* This step is a configure call (seq alternates with every call).
ConfigureStep == call'.seq # call.seq

\* Two link specs of the configuration name the same output slot of the same
\* app, or the same input slot of the same app.
DuplicateSlots(config) ==
    \E l1, l2 \in config.links :
        /\ l1 # l2
        /\ \/ parse_link(l1).from = parse_link(l2).from
              /\ parse_link(l1).output = parse_link(l2).output
           \/ parse_link(l1).to = parse_link(l2).to
              /\ parse_link(l1).input = parse_link(l2).input

\* C1: when configure(C) has returned, the names of the app registry are the
\* keys of C.apps, every live app's retained configuration has the identity
\* of C.apps[name], and the keys of the link registry are C.links, whatever
\* was live before the call.
C1_LiveStateMatchesConfig ==
    Returned =>
        /\ DOMAIN app_table = DOMAIN call.config.apps
        /\ \A name \in DOMAIN app_table :
              identity(app_table[name].conf) = identity(call.config.apps[name])
        /\ DOMAIN link_table = call.config.links

\* C1 witness: a configure call has returned that replaced an earlier app
\* network: it stopped an app, and left two apps and a link.
C1_Witness ==
    /\ Returned
    /\ \E name \in AppNames : call.stops[name] > 0
    /\ Cardinality(DOMAIN app_table) = 2
    /\ link_table # EmptyMap

\* The live apps that configure(config) has to stop: those whose name is not
\* in config.apps, and those whose retained configuration has another identity.
Outdated(config) ==
    {name \in DOMAIN app_table :
        \/ name \notin DOMAIN config.apps
        \/ identity(app_table[name].conf) # identity(config.apps[name])}

\* C2: a configure(C) call stops exactly the live apps that are absent from C
\* or whose identity differs, each once; it calls the stop hook of each of
\* them once if the app has one and never otherwise; a changed app is
\* instantiated once, afresh, and holds only the slots that the links of C
\* give it; every other live app is neither stopped nor instantiated and
\* keeps its instance and its configuration.
C2_StopsExactlyOutdated ==
    [][ConfigureStep =>
        LET config == call'.config
        IN  \A name \in AppNames :
              /\ call'.stops[name] = IF name \in Outdated(config) THEN 1 ELSE 0
              /\ call'.hooks[name] =
                    IF name \in Outdated(config) /\ app_table[name].app.has_stop
                    THEN 1 ELSE 0
              /\ (name \in Outdated(config) /\ name \in DOMAIN config.apps) =>
                    /\ call'.starts[name] = 1
                    /\ pc' # "panicked" =>
                          /\ app_table'[name].app = new(config.apps[name])
                          /\ DOMAIN app_table'[name].output =
                                {parse_link(l).output :
                                   l \in {k \in config.links : parse_link(k).from = name}}
                          /\ DOMAIN app_table'[name].input =
                                {parse_link(l).input :
                                   l \in {k \in config.links : parse_link(k).to = name}}
              /\ (name \in DOMAIN app_table /\ name \notin Outdated(config)) =>
                    /\ call'.starts[name] = 0
                    /\ name \in DOMAIN app_table'
                    /\ app_table'[name].app = app_table[name].app
                    /\ app_table'[name].conf = app_table[name].conf
       ]_vars

\* C2 witness: one configure call has stopped an app that has a stop hook and
\* an app that has none, and has instantiated a changed app again.
C2_Witness ==
    /\ Returned
    /\ \E n1, n2 \in AppNames :
          /\ call.stops[n1] = 1 /\ call.hooks[n1] = 1
          /\ call.stops[n2] = 1 /\ call.hooks[n2] = 0 /\ call.starts[n2] = 1

\* The slots that link spec `spec` names hold the link object registered
\* under `spec`.
BoundBothEnds(apps, spec) ==
    LET s == parse_link(spec)
    IN  /\ s.from \in DOMAIN apps
        /\ s.output \in DOMAIN apps[s.from].output
        /\ apps[s.from].output[s.output] = spec
        /\ s.to \in DOMAIN apps
        /\ s.input \in DOMAIN apps[s.to].input
        /\ apps[s.to].input[s.input] = spec

C3_KeptUnlessDuplicateSlots ==
    [][(ConfigureStep /\ pc' # "panicked") =>
        \A spec \in DOMAIN link_table \cap call'.config.links :
            /\ spec \in DOMAIN link_table'
            /\ link_table'[spec] = link_table[spec]
            /\ ~DuplicateSlots(call'.config) => BoundBothEnds(app_table', spec)
       ]_vars

\* A link that carries traffic was kept by a configure call that restarted
\* one of its endpoint apps.
C3_Witness ==
    /\ Returned
    /\ \E spec \in DOMAIN link_table :
          /\ link_table[spec].txpackets > 0
          /\ call.starts[parse_link(spec).from] = 1
          /\ call.stops[parse_link(spec).from] = 1

\* C4: after every configure call that returns, for every link key in the link
\* registry, the output slot of its from app and the input slot of its to app
\* are bound to the link object stored under that key.
C4_RegistryLinksBound ==
    Returned => \A spec \in DOMAIN link_table : BoundBothEnds(app_table, spec)

\* C4 for configurations without duplicate slots: this much of C4 holds.
C4_BoundUnlessDuplicateSlots ==
    (Returned /\ ~DuplicateSlots(call.config)) =>
        \A spec \in DOMAIN link_table : BoundBothEnds(app_table, spec)


(***************************************************************************)
(* main and the breathe loop.  main is one call of the program that owns   *)
(* the engine; it is split where it calls out: at each pull and push hook, *)
(* at each evaluation of done, and at the sleep of pace_breathing.         *)
(*   pc = "breathe" : about to call breathe()                              *)
(*        "pull"    : in breathe, at inhale[run.idx]                       *)
(*        "push"    : in breathe, at exhale[run.idx]                       *)
(*        "count"   : in breathe, after the loops                          *)
(*        "check"   : at the condition of the while loop                   *)
(*        "pace"    : about to call pace_breathing()                       *)
(*        "report"  : after the loop                                       *)
(***************************************************************************)

MAXSLEEP == 100

\* A now that reads the clock at every call.
now_unlatched == clock

\* Engine::now
now == IF monotonic_now = None THEN clock ELSE monotonic_now[1]

\* Engine::timeout: the deadline its closure holds.
timeout(duration) == now + duration

\* A main that is a plain while loop: it consults done before any breath.
MainEnter_checks_first(options) ==
    /\ pc = "idle"
    /\ pc' = "check"
    /\ run' = [done      |-> IF options.duration # None
                              THEN Some("timeout") ELSE options.done,
                deadline  |-> IF options.duration # None
                              THEN clock + options.duration[1] ELSE 0,
                breaths0  |-> stats.breaths,
                continued |-> 0,
                ended     |-> 0,
                idx       |-> 0,
                hooks     |-> <<>>,
                frees0    |-> stats.frees,
                slept     |-> None,
                idle      |-> run.idle,
                latch     |-> run.latch,
                nows      |-> {}]
    /\ UNCHANGED <<app_table, link_table, inhale, exhale, stats, monotonic_now,
                   lastfrees, sleep, clock, call, loss>>

\* main, up to the first breathe(): options.done is None or "pred" (a closure
\* of the caller), options.duration is None or a duration.
MainEnter(options) ==
    /\ pc = "idle"
    /\ IF options.duration # None /\ options.done # None
       THEN \* assert!(done.is_none())
            /\ pc' = "panicked"
            /\ run' = run
       ELSE /\ pc' = "breathe"
            /\ run' = [done      |-> IF options.duration # None
                                     THEN Some("timeout") ELSE options.done,
                       deadline  |-> IF options.duration # None
                                     THEN timeout(options.duration[1]) ELSE 0,
                       breaths0  |-> stats.breaths,
                       continued |-> 0,
                       ended     |-> 0,
                       idx       |-> 0,
                       hooks     |-> <<>>,
                       frees0    |-> stats.frees,
                       slept     |-> None,
                       idle      |-> run.idle,
                       latch     |-> run.latch,
                       nows      |-> {}]
    /\ UNCHANGED <<app_table, link_table, inhale, exhale, stats, monotonic_now,
                   lastfrees, sleep, clock, call, loss>>

\* The position of breathe before element i of inhale: the end of the first
\* loop is the start of the second, the end of the second is "count".
AtInhale(i) ==
    IF i <= Len(inhale) THEN <<"pull", i>>
    ELSE IF 1 <= Len(exhale) THEN <<"push", 1>>
    ELSE <<"count", 0>>

\* A second loop of breathe that ends after its first pass.
AtExhale_one_pass(i) ==
    IF i <= 1 /\ i <= Len(exhale) THEN <<"push", i>> ELSE <<"count", 0>>

\* The position of breathe before element i of exhale.
AtExhale(i) ==
    IF i <= Len(exhale) THEN <<"push", i>> ELSE <<"count", 0>>

\* breathe: self.monotonic_now = Some(Instant::now())
BreatheLatch ==
    /\ pc = "breathe"
    /\ monotonic_now' = Some(clock)
    /\ pc' = AtInhale(1)[1]
    /\ run' = [run EXCEPT !.idx = AtInhale(1)[2], !.hooks = <<>>,
                          !.frees0 = stats.frees, !.latch = Some(clock),
                          !.nows = {}]
    /\ UNCHANGED <<app_table, link_table, inhale, exhale, stats, lastfrees,
                   sleep, clock, call, loss>>

\* What a pull hook can do to the links: nothing, or transmit a packet on a
\* link bound to one of the app's output slots.
PullResults(app) ==
    {link_table} \cup
    { [link_table EXCEPT ![app.output[slot]] = transmit(@)]
      : slot \in {x \in DOMAIN app.output :
                     app.output[x] \in DOMAIN link_table /\ Offered < MaxPackets} }

\* What a push hook can do to the links and to stats.frees: nothing, or
\* receive a packet from a link bound to one of the app's input slots and
\* free it (Engine::add_frees).
PushResults(app) ==
    {[links |-> link_table, frees |-> stats.frees]} \cup
    { [links |-> [link_table EXCEPT ![app.input[slot]] = receive(@)],
       frees |-> stats.frees + 1]
      : slot \in {x \in DOMAIN app.input :
                     /\ app.input[x] \in DOMAIN link_table
                     /\ link_table[app.input[x]].npackets > 0
                     /\ stats.frees < MaxFrees} }

\* breathe, one pass of "for name in self.state.inhale"; the hook may call
\* now().
BreathePull ==
    /\ pc = "pull"
    /\ LET name == inhale[run.idx]
       IN  IF name \notin DOMAIN app_table \/ ~app_table[name].app.pull
           THEN \* unwrap() on None, or unimplemented!() in App::pull
                /\ pc' = "panicked"
                /\ UNCHANGED <<link_table, run>>
           ELSE /\ \E links \in PullResults(app_table[name]) : link_table' = links
                /\ pc' = AtInhale(run.idx + 1)[1]
                /\ run' = [run EXCEPT !.idx = AtInhale(run.idx + 1)[2],
                                      !.hooks = Append(@, <<"pull", name>>),
                                      !.nows = @ \cup {now}]
    /\ UNCHANGED <<app_table, inhale, exhale, stats, monotonic_now, lastfrees,
                   sleep, clock, call, loss>>

\* breathe, one pass of "for name in self.state.exhale"; the hook may call
\* now().
BreathePush ==
    /\ pc = "push"
    /\ LET name == exhale[run.idx]
       IN  IF name \notin DOMAIN app_table \/ ~app_table[name].app.push
           THEN \* unwrap() on None, or unimplemented!() in App::push
                /\ pc' = "panicked"
                /\ UNCHANGED <<link_table, stats, run>>
           ELSE /\ \E r \in PushResults(app_table[name]) :
                      /\ link_table' = r.links
                      /\ stats' = [stats EXCEPT !.frees = r.frees]
                /\ pc' = AtExhale(run.idx + 1)[1]
                /\ run' = [run EXCEPT !.idx = AtExhale(run.idx + 1)[2],
                                      !.hooks = Append(@, <<"push", name>>),
                                      !.nows = @ \cup {now}]
    /\ UNCHANGED <<app_table, inhale, exhale, monotonic_now, lastfrees, sleep,
                   clock, call, loss>>

\* breathe: self.stats.breaths += 1, and the return to main
BreatheCount ==
    /\ pc = "count"
    /\ stats' = [stats EXCEPT !.breaths = @ + 1]
    /\ pc' = "check"
    /\ UNCHANGED <<app_table, link_table, inhale, exhale, monotonic_now,
                   lastfrees, sleep, clock, run, call, loss>>

\* A done that never holds.
DoneResults_never == {FALSE}

\* What done() can return: a closure of the caller returns anything, the
\* closure of timeout compares the clock with its deadline, and without
\* done the loop condition is true, as for a done that never holds.
DoneResults ==
    CASE run.done = Some("pred")    -> BOOLEAN
      [] run.done = Some("timeout") -> {clock > run.deadline}
      [] OTHER                -> {FALSE}

\* main: the condition of the while loop
CheckDone ==
    /\ pc = "check"
    /\ \E done \in DoneResults :
          IF done
          THEN /\ pc' = "report"
               /\ run' = [run EXCEPT !.ended = @ + 1]
          ELSE /\ pc' = "pace"
               /\ run' = [run EXCEPT !.continued = @ + 1]
    /\ UNCHANGED <<app_table, link_table, inhale, exhale, stats, monotonic_now,
                   lastfrees, sleep, clock, call, loss>>

\* Engine::pace_breathing: the sleep level and the lastfrees it leaves, and
\* the microseconds it sleeps (None: it does not sleep).  While it sleeps the
\* clock advances as at any other time.
pace_breathing ==
    IF lastfrees = stats.frees
    THEN LET level == IF sleep + 1 <= MAXSLEEP THEN sleep + 1 ELSE MAXSLEEP
         IN  [sleep |-> level, slept |-> Some(level), lastfrees |-> stats.frees]
    ELSE [sleep |-> sleep \div 2, slept |-> None, lastfrees |-> stats.frees]

\* The breath that has just ended freed no packet.
IdleBreath == stats.frees = run.frees0

\* run.idle after this pace step.
IdleStreak ==
    IF ~IdleBreath THEN 0
    ELSE IF run.idle > 0 \/ sleep = 0 THEN run.idle + 1
    ELSE 0

\* main: self.pace_breathing() in the loop body
Pace ==
    /\ pc = "pace"
    /\ LET paced == pace_breathing
       IN  /\ sleep' = paced.sleep
           /\ lastfrees' = paced.lastfrees
           /\ run' = [run EXCEPT !.slept = paced.slept, !.idle = IdleStreak]
    /\ pc' = "breathe"
    /\ UNCHANGED <<app_table, link_table, inhale, exhale, stats, monotonic_now,
                   clock, call, loss>>

\* A main that returns without self.monotonic_now = None.
MainReturn_keeps_latch ==
    /\ pc = "report"
    /\ pc' = "idle"
    /\ UNCHANGED <<app_table, link_table, inhale, exhale, stats, monotonic_now,
                   lastfrees, sleep, clock, run, call, loss>>

\* main after the loop: the reports, self.monotonic_now = None, return
MainReturn ==
    /\ pc = "report"
    /\ monotonic_now' = None
    /\ pc' = "idle"
    /\ UNCHANGED <<app_table, link_table, inhale, exhale, stats, lastfrees,
                   sleep, clock, run, call, loss>>


(***************************************************************************)
(* SpecPlan: configure on app networks of every shape.  Three apps of any  *)
(* pull and push capabilities, and up to MaxPlanLinks links between them,  *)
(* self-links included; every link has slots of its own (the output slot   *)
(* is named after the receiving app, the input slot after the sending      *)
(* app), so no slot is named twice.  The configuration is applied to a new *)
(* engine, and then applied again.                                         *)
(***************************************************************************)

PlanTypes == {"Source", "Tee", "PseudoIO", "Idle"}

PlanLinkSpecs == {LinkSpec(f, t, t, f) : f \in PlanNames, t \in PlanNames}

PlanConfigs ==
    {[apps |-> a, links |-> l] :
        a \in [PlanNames -> {AppConf(type, 0) : type \in PlanTypes}],
        l \in {S \in SUBSET PlanLinkSpecs : Cardinality(S) <= MaxPlanLinks}}

FirstConfigure ==
    /\ call.op = "new"
    /\ \E config \in PlanConfigs : Configure(config)

Repeat ==
    /\ call.op = "configure"
    /\ Configure(call.config)

NextPlan == FirstConfigure \/ Repeat

SpecPlan == Init /\ [][NextPlan]_vars

\* This step is a configure(C) call directly after a configure(C) call that
\* returned, and it returns.
RepeatStep ==
    /\ ConfigureStep
    /\ Returned
    /\ call'.config = call.config
    /\ pc' # "panicked"

\* What a second configure(C) keeps, the breathe order aside: it stops and
\* starts no app, the link registry has the same keys, and every app has its
\* instance and the bindings of its input and output slots as before.
RepeatKeepsNetwork ==
    /\ call'.stops = NoCounts
    /\ call'.hooks = NoCounts
    /\ call'.starts = NoCounts
    /\ DOMAIN link_table' = DOMAIN link_table
    /\ app_table' = app_table

\* C5: a second configure(C) directly after configure(C) stops no app,
\* starts no app, creates and removes no link, and leaves the slot bindings
\* of every app and the inhale and exhale sequences as the first call left
\* them.
C5_Idempotent ==
    [][RepeatStep =>
          /\ RepeatKeepsNetwork
          /\ link_table' = link_table
          /\ inhale' = inhale
          /\ exhale' = exhale
      ]_vars

\* C5 without the exhale sequence: with no slot named twice, a second
\* configure(C) keeps the apps, the links and their counters, the slot
\* bindings, and inhale.
C5_IdempotentButExhale ==
    [][RepeatStep =>
          /\ RepeatKeepsNetwork
          /\ link_table' = link_table
          /\ inhale' = inhale
      ]_vars

\* The live apps that advertise pull, and those that advertise push.
PullApps == {name \in DOMAIN app_table : app_table[name].app.has_pull}

PushApps == {name \in DOMAIN app_table : app_table[name].app.has_push}

\* s is strictly ascending in name order.
Ascending(s) == \A i, j \in 1..Len(s) : i < j => Rank(s[i]) < Rank(s[j])

\* C9: when a configure call has returned, inhale holds the names of the
\* live apps that advertise pull, each once, in ascending name order.
C9_InhaleSortedPullApps ==
    Returned =>
        /\ Range(inhale) = PullApps
        /\ Ascending(inhale)

\* C9 witness: a configure call has returned with two apps that pull, the
\* first and the last in name order, and one between them that does not.
C9_Witness ==
    /\ Returned
    /\ inhale = <<"a_io1", "c_t2">>
    /\ "b_t1" \in DOMAIN app_table

\* The apps that a path of one or more link edges leads to from some app of
\* `from`, in the graph of the link registry.
RECURSIVE ReachableFrom(_)
ReachableFrom(from) ==
    LET step == {parse_link(spec).to :
                    spec \in {k \in DOMAIN link_table : parse_link(k).from \in from}}
    IN  IF step \subseteq from THEN from ELSE ReachableFrom(from \cup step)

Reachable ==
    LET first == {parse_link(spec).to :
                    spec \in {k \in DOMAIN link_table : parse_link(k).from \in PullApps}}
    IN  ReachableFrom(first)

\* C10: when a configure call has returned, the names in exhale are the live
\* apps that advertise push and that a path of one or more link edges leads
\* to from some inhaler.
C10_ExhaleIsReachablePushApps ==
    Returned => Range(exhale) = PushApps \cap Reachable

\* The part of C10 that the planner keeps: every name in exhale is a live
\* app that advertises push and is reachable from some inhaler.
C10_ExhaleWithinReachablePushApps ==
    Returned => Range(exhale) \subseteq PushApps \cap Reachable


\* The monotonic clock (Instant::now()) advances.
Tick ==
    /\ clock < MaxClock
    /\ clock' = clock + 1
    /\ UNCHANGED <<app_table, link_table, inhale, exhale, stats, monotonic_now,
                   lastfrees, sleep, pc, run, call, loss>>

(***************************************************************************)
(* SpecMain: the program configures the engine and runs main, any number   *)
(* of times, with no options, with a done predicate, with a duration, or   *)
(* with both.  The app networks are the empty one, a source feeding a      *)
(* sink, one with two inhalers and two exhalers, and one whose app         *)
(* implements no hook.                                                     *)
(***************************************************************************)

SourceSink ==
    [apps  |-> [name \in {"a_io1", "b_t1"} |->
                   IF name = "a_io1" THEN AppConf("Source", 60) ELSE AppConf("Sink", 0)],
     links |-> {LinkSpec("a_io1", "output", "b_t1", "input")}]

\* inhale is <<a_io1, c_t2>> and exhale is <<b_t1, c_t2>>.
TwoByTwo ==
    [apps  |-> [name \in PlanNames |->
                   CASE name = "a_io1" -> AppConf("Source", 60)
                     [] name = "b_t1"  -> AppConf("Tee", 0)
                     [] OTHER          -> AppConf("IO", 0)],
     links |-> {LinkSpec("a_io1", "output", "b_t1", "input"),
                LinkSpec("a_io1", "output2", "c_t2", "input")}]

\* The app of the breathe_order test, alone.
Pseudo == [apps |-> [name \in {"a_io1"} |-> AppConf("PseudoIO", 0)], links |-> {}]

MainConfigs == {EmptyConfig, SourceSink, TwoByTwo, Pseudo}

Durations == {0, 1}

MainOptions ==
    [done : {None, Some("pred")}, duration : {None} \cup {Some(d) : d \in Durations}]

MainConfigure == \E config \in MainConfigs : Configure(config)

Main == \E options \in MainOptions : MainEnter(options)

\* A behaviour has at most MaxBreaths breaths.
Breathe == stats.breaths < MaxBreaths /\ BreatheLatch

NextMain ==
    \/ MainConfigure
    \/ Main
    \/ Breathe
    \/ BreathePull
    \/ BreathePush
    \/ BreatheCount
    \/ CheckDone
    \/ Pace
    \/ MainReturn
    \/ Tick

SpecMain == Init /\ [][NextMain]_vars


\* The hook calls of one whole breath: the pulls of inhale in order, then
\* the pushes of exhale in order.
BreathHooks ==
    [i \in 1..Len(inhale) |-> <<"pull", inhale[i]>>]
      \o [i \in 1..Len(exhale) |-> <<"push", exhale[i]>>]

\* A breath is in progress.
InBreath == pc \in {"pull", "push", "count"}

\* C6: the hook calls of a breath in progress are the first calls of
\* BreathHooks, so each inhale app is pulled once, in inhale order, before
\* any push, and each exhale app is pushed once, in exhale order; and the
\* step that changes stats.breaths adds 1 to it and is taken when all of
\* BreathHooks have been called, the last push included.
C6_BreathOrder ==
    /\ [](InBreath =>
            /\ Len(run.hooks) <= Len(BreathHooks)
            /\ run.hooks = SubSeq(BreathHooks, 1, Len(run.hooks))
            /\ pc = "count" => run.hooks = BreathHooks)
    /\ [][stats'.breaths # stats.breaths =>
            /\ stats'.breaths = stats.breaths + 1
            /\ pc = "count"
            /\ run.hooks = BreathHooks
            /\ run'.hooks = run.hooks
         ]_vars

\* C6 witness: a breath of the network with two inhalers and two exhalers
\* has been counted, the second push has received a packet and freed it.
C6_Witness ==
    /\ pc = "check"
    /\ Len(inhale) = 2
    /\ Len(exhale) = 2
    /\ run.hooks = BreathHooks
    /\ stats.breaths = 2
    /\ stats.frees = 1

\* The breaths of the present run of main, or of the last one.
RunBreaths == stats.breaths - run.breaths0

\* C7: in a run of main the breaths performed are one more than the
\* evaluations of the loop condition that found the run not done, once the
\* breath that follows the evaluation is counted; so the first breath comes
\* before any evaluation, every further breath follows an evaluation that
\* returned false, none follows one that returned true, and the run that has
\* returned has added 1 plus the number of false evaluations to stats.breaths.
C7_BreathsPerRun ==
    /\ pc \in {"breathe", "pull", "push", "count", "pace"} =>
          /\ run.ended = 0
          /\ RunBreaths = run.continued
    /\ pc = "check" =>
          /\ run.ended = 0
          /\ RunBreaths = run.continued + 1
    /\ pc = "report" =>
          /\ run.ended = 1
          /\ RunBreaths = run.continued + 1
    /\ (pc = "idle" /\ run.ended > 0) =>
          /\ run.ended = 1
          /\ RunBreaths = run.continued + 1

\* C7 witness: a run of main with a done predicate has returned after done
\* was false twice and then true.
C7_Witness ==
    /\ pc = "idle"
    /\ run.done = Some("pred")
    /\ run.continued = 2
    /\ run.ended = 1
    /\ RunBreaths = 3

\* C7 witness for a done that is true at once: the run has returned after
\* one breath.
C7_WitnessConstantlyTrue ==
    /\ pc = "idle"
    /\ run.done = Some("pred")
    /\ run.continued = 0
    /\ run.ended = 1
    /\ RunBreaths = 1


(***************************************************************************)
(* SpecLive: main with a duration, on a clock that keeps advancing and     *)
(* with hooks that return.  The clock has MaxClock instants; a run is      *)
(* started while its deadline is before the last of them, and a breath     *)
(* starts at a later instant than the breath before it, so the runs and    *)
(* their breaths are bounded by the clock.                                 *)
(***************************************************************************)

LiveConfigure ==
    /\ call.op = "new"
    /\ \E config \in {SourceSink, TwoByTwo} : Configure(config)

LiveMain ==
    \E d \in Durations :
        /\ clock + d < MaxClock
        /\ MainEnter([done |-> None, duration |-> Some(d)])

LiveBreathe ==
    /\ monotonic_now # None => clock > monotonic_now[1]
    /\ BreatheLatch

NextLive ==
    \/ LiveConfigure
    \/ LiveMain
    \/ LiveBreathe
    \/ BreathePull
    \/ BreathePush
    \/ BreatheCount
    \/ CheckDone
    \/ Pace
    \/ MainReturn
    \/ Tick

\* The clock advances, every hook returns, and main takes its next step.
SpecLive ==
    /\ Init
    /\ [][NextLive]_vars
    /\ WF_vars(Tick)
    /\ WF_vars(LiveBreathe)
    /\ WF_vars(BreathePull)
    /\ WF_vars(BreathePush)
    /\ WF_vars(BreatheCount)
    /\ WF_vars(CheckDone)
    /\ WF_vars(Pace)
    /\ WF_vars(MainReturn)

\* main is running with a duration.
InTimedMain == pc \notin {"idle", "panicked"} /\ run.done = Some("timeout")

\* C8: main with a duration eventually returns; when it has returned it has
\* performed at least one breath; the evaluation of the loop condition that
\* finds the clock past the deadline ends the loop; and after the loop has
\* ended no breath is started before main returns.
C8_TimedMainReturns ==
    /\ InTimedMain ~> (pc = "idle")
    /\ [](pc \in {"report", "idle"} /\ run.done = Some("timeout")
             => RunBreaths >= 1)
    /\ [][(InTimedMain /\ pc = "check" /\ pc' # "check" /\ clock > run.deadline)
             => pc' = "report"]_vars
    /\ [][(InTimedMain /\ pc = "report")
             => (pc' \in {"report", "idle"} /\ stats' = stats)]_vars

\* C8 witness: a run of main with duration 0 has returned after two breaths:
\* its first check came before the clock had passed the deadline.
C8_Witness ==
    /\ pc = "idle"
    /\ run.done = Some("timeout")
    /\ run.deadline = 0
    /\ run.continued = 1
    /\ run.ended = 1


(***************************************************************************)
(* Claims about the breathe order, under SpecPlan.                         *)
(***************************************************************************)

\* The link registry has the edge u -> v.
Edge(u, v) ==
    \E spec \in DOMAIN link_table :
        parse_link(spec).from = u /\ parse_link(spec).to = v

\* s holds no name twice.
NoDuplicates(s) == \A i, j \in 1..Len(s) : i # j => s[i] # s[j]

\* C11: when a configure call has returned, exhale holds no name twice, for
\* every link graph, cyclic ones included.
C11_ExhaleNoDuplicates ==
    Returned => NoDuplicates(exhale)

\* C11 witness: a configure call has returned with two inhalers that feed the
\* same app, and with a link cycle between two apps of exhale.
C11_Witness ==
    /\ Returned
    /\ Len(inhale) = 2
    /\ \E v \in Range(exhale) : Edge(inhale[1], v) /\ Edge(inhale[2], v)
    /\ \E u, v \in Range(exhale) : u # v /\ Edge(u, v) /\ Edge(v, u)

\* C12: when a configure call has returned, no app name is both in inhale
\* and in exhale, and neither holds a name twice.
C12_InhaleExhaleDisjoint ==
    Returned =>
        /\ NoDuplicates(inhale)
        /\ NoDuplicates(exhale)
        /\ Range(inhale) \cap Range(exhale) = {}

\* C12 as amended: neither inhale nor exhale holds a name twice, and a name
\* that is in both is an app that advertises pull and push and is fed by a
\* link from an app of inhale or exhale.
C12_OnceInEachList ==
    Returned =>
        /\ NoDuplicates(inhale)
        /\ NoDuplicates(exhale)
        /\ \A name \in Range(inhale) \cap Range(exhale) :
              /\ app_table[name].app.has_pull
              /\ app_table[name].app.has_push
              /\ \E u \in Range(inhale) \cup Range(exhale) : Edge(u, name)

\* C12 witness: a configure call has returned with an app that advertises
\* pull and push, is fed by another app of exhale, and is in both lists.
C12_Witness ==
    /\ Returned
    /\ \E name \in Range(inhale) \cap Range(exhale) :
          \E u \in Range(exhale) \ {name} : Edge(u, name)

(***************************************************************************)
(* SpecOrder: the planner on networks of four apps, an app that pulls and  *)
(* three that may push, with up to MaxOrderLinks links between different   *)
(* apps, each with slots of its own.                                       *)
(***************************************************************************)

OrderLinkSpecs ==
    {LinkSpec(e[1], e[2], e[2], e[1]) :
        e \in {p \in AppNames \X AppNames : p[1] # p[2]}}

OrderApps ==
    {a \in [AppNames -> {AppConf(type, 0) : type \in {"Source", "PseudoIO", "Tee", "Idle"}}] :
        /\ a["a_io1"].type \in {"Source", "PseudoIO"}
        /\ \A name \in AppNames \ {"a_io1"} : a[name].type \in {"Tee", "Idle"}}

OrderConfigs ==
    {[apps |-> a, links |-> l] :
        a \in OrderApps,
        l \in {S \in SUBSET OrderLinkSpecs : Cardinality(S) <= MaxOrderLinks}}

FirstOrder ==
    /\ call.op = "new"
    /\ \E config \in OrderConfigs : Configure(config)

NextOrder == FirstOrder \/ Repeat

SpecOrder == Init /\ [][NextOrder]_vars

\* The apps a path of one or more link edges leads to from app `name`.
Descendants(name) ==
    ReachableFrom({parse_link(spec).to :
                     spec \in {k \in DOMAIN link_table : parse_link(k).from = name}})

\* The link graph has no cycle.
Acyclic == \A name \in AppNames : name \notin Descendants(name)

\* The place of `name` in sequence s.
Position(s, name) == CHOOSE i \in 1..Len(s) : s[i] = name

\* C13: when a configure call has returned and the link graph is acyclic,
\* for every link edge u -> v with u and v in exhale, u comes before v in
\* exhale.
C13_AcyclicOrder ==
    (Returned /\ Acyclic) =>
        \A u, v \in Range(exhale) :
            Edge(u, v) => Position(exhale, u) < Position(exhale, v)

\* C14: when a configure call has returned, the breathe order it has left is
\* the only one compute_breathe_order can produce from the app registry and
\* the link registry, whatever the iteration order of the hash collections.
C14_PlannerDeterministic ==
    Returned =>
        compute_breathe_order(app_table, link_table)
            = {[inhale |-> inhale, exhale |-> exhale]}

\* C14 for acyclic link graphs only.
C14_DeterministicIfAcyclic ==
    (Returned /\ Acyclic) =>
        compute_breathe_order(app_table, link_table)
            = {[inhale |-> inhale, exhale |-> exhale]}

\* The inhale sequence does not depend on the iteration order.
C14_InhaleDeterministic ==
    Returned =>
        \A o \in compute_breathe_order(app_table, link_table) : o.inhale = inhale

\* The names self.exhale holds before round i of the push order loop.
ExhaledBefore(rounds, i) == Range(Flatten(SubSeq(rounds, 1, i - 1)))

\* C15: when a configure call has returned, every run the push order loop
\* of compute_breathe_order can take from the registries is finite: each of
\* its rounds appends a batch that is not empty and holds an app not yet in
\* exhale, so there are no more rounds than apps.
C15_EveryRoundAppends ==
    Returned =>
        \A rounds \in PlannerRounds(app_table, link_table) :
            /\ Len(rounds) <= Cardinality(DOMAIN app_table)
            /\ \A i \in 1..Len(rounds) :
                  \E name \in Range(rounds[i]) : name \notin ExhaledBefore(rounds, i)

\* A configure call has returned on a link graph where an app of exhale
\* links to itself and lies on a cycle with another app of exhale, and the
\* push order loop took more than one round.
C15_Witness ==
    /\ Returned
    /\ \E u \in Range(exhale) : Edge(u, u)
    /\ \E u, v \in Range(exhale) : u # v /\ Edge(u, v) /\ Edge(v, u)
    /\ \E rounds \in PlannerRounds(app_table, link_table) :
          Len(rounds) > 1 /\ Flatten(rounds) = exhale

(***************************************************************************)
(* Claims about configurations configure cannot realise, under Spec.       *)
(***************************************************************************)

\* Some link of the configuration names an endpoint app that is not in its
\* apps.
UnknownEndpoint(config) ==
    \E l \in config.links :
        \/ parse_link(l).from \notin DOMAIN config.apps
        \/ parse_link(l).to \notin DOMAIN config.apps

\* C16: a configure call whose configuration has a link with an endpoint app
\* that is not in its apps fails, and leaves the app registry with its slot
\* bindings, the link registry, inhale and exhale as they were, with no app
\* stopped or started.
C16_FailsBeforeTouching ==
    [][(ConfigureStep /\ UnknownEndpoint(call'.config)) =>
          /\ pc' = "panicked"
          /\ app_table' = app_table
          /\ link_table' = link_table
          /\ inhale' = inhale
          /\ exhale' = exhale
          /\ call'.stops = NoCounts
          /\ call'.starts = NoCounts]_vars

\* C16, the failure alone: such a configure call panics.
C16_Fails ==
    [][(ConfigureStep /\ UnknownEndpoint(call'.config)) => pc' = "panicked"]_vars

\* C17: a configure call whose configuration has two link specs for the
\* same output slot of an app, or for the same input slot of an app, fails:
\* it does not return, and so never returns with both links in the link
\* registry.
C17_DuplicateSlotsFail ==
    [][(ConfigureStep /\ DuplicateSlots(call'.config)) => pc' = "panicked"]_vars

(***************************************************************************)
(* SpecIdle: long runs of main.  The program configures the empty network  *)
(* or a source feeding a sink and runs main with no options or with a done *)
(* predicate, for up to MaxIdleBreaths breaths in all, enough for the      *)
(* sleep level to reach MAXSLEEP.  It calls configure and main only during *)
(* the first MaxBreaths breaths; a run it has entered goes on.             *)
(***************************************************************************)

MaxIdleBreaths == 104

IdleConfigs == {EmptyConfig, SourceSink}

IdleOptions == [done : {None, Some("pred")}, duration : {None}]

IdleConfigure ==
    stats.breaths < MaxBreaths /\ \E config \in IdleConfigs : Configure(config)

IdleMain ==
    stats.breaths < MaxBreaths /\ \E options \in IdleOptions : MainEnter(options)

\* A behaviour has at most MaxIdleBreaths breaths.
IdleBreathe == stats.breaths < MaxIdleBreaths /\ BreatheLatch

NextIdle ==
    \/ IdleConfigure
    \/ IdleMain
    \/ IdleBreathe
    \/ BreathePull
    \/ BreathePush
    \/ BreatheCount
    \/ CheckDone
    \/ Pace
    \/ MainReturn

SpecIdle == Init /\ [][NextIdle]_vars

\* C18: in every state the sleep level is between 0 and MAXSLEEP, and when
\* MAXSLEEP or more pace steps, each after a breath that freed no packet,
\* have been made one after the other since the sleep level was 0, the sleep
\* level is MAXSLEEP.
C18_SleepLevel ==
    /\ sleep \in 0..MAXSLEEP
    /\ run.idle >= MAXSLEEP => sleep = MAXSLEEP

\* C18, the bounds alone.
C18_SleepBounded == sleep \in 0..MAXSLEEP

\* C18 for an engine that has never freed a packet.
C18_NeverFreedReachesMax ==
    (stats.frees = 0 /\ run.idle >= MAXSLEEP) => sleep = MAXSLEEP

\* The sleep level has reached MAXSLEEP and another idle pace step was made.
C18_AtMax == sleep = MAXSLEEP /\ run.idle > MAXSLEEP

(***************************************************************************)
(* Claims about pacing and the latched clock, under SpecMain.              *)
(***************************************************************************)

\* This step is a call of pace_breathing by main.
PaceStep == pc = "pace" /\ pc' = "breathe"

\* What C19 asks of a pace step.
PaceFollowsBreath ==
    IF IdleBreath
    THEN /\ sleep' = (IF sleep + 1 <= MAXSLEEP THEN sleep + 1 ELSE MAXSLEEP)
         /\ run'.slept = Some(sleep')
    ELSE /\ sleep' = sleep \div 2
         /\ run'.slept = None

\* C19: at every pace step of every main run, if the breath that has just
\* ended freed no packet the sleep level becomes min(sleep + 1, MAXSLEEP)
\* and the engine sleeps that many microseconds; if it freed a packet the
\* sleep level becomes sleep / 2, rounded down, and the engine does not
\* sleep.
C19_PaceFollowsBreath == [][PaceStep => PaceFollowsBreath]_vars

\* C19 for the pace steps of the first main run of an engine.
C19_FirstRunPace ==
    [][(PaceStep /\ run.breaths0 = 0) => PaceFollowsBreath]_vars

\* C20: every instant now() returns to a hook of a breath is the instant of
\* the clock when the breath started, and the start instants of successive
\* breaths never decrease.
C20_LatchedNow ==
    [][/\ \A t \in run'.nows : run'.latch = Some(t)
       /\ (run.latch # None /\ run'.latch # None) => run'.latch[1] >= run.latch[1]
      ]_vars

\* A breath after the first, started when the clock had advanced, has called
\* two hooks or more, and the clock has advanced again since it started.
C20_Witness ==
    /\ pc = "count"
    /\ stats.breaths > 0
    /\ Len(run.hooks) > 1
    /\ run.nows # {}
    /\ run.latch # None
    /\ run.latch[1] > 0
    /\ clock > run.latch[1]

\* C21: whenever no breath is in progress, now() returns the present instant
\* of the clock: before the first breath, between two breaths of a main run
\* and after main has returned.
C21_LatchOnlyInBreath ==
    (~InBreath /\ pc # "panicked") => now = clock

\* A main run has begun its first breath and has not returned.
LatchHeld ==
    \/ pc \in {"pull", "push", "count", "check", "pace", "report"}
    \/ pc = "breathe" /\ stats.breaths > run.breaths0

\* C21 as the code has it: from the start of the first breath of a main run
\* until that run returns, between its breaths too, now() returns the
\* instant latched by the latest breath; before the first breath of a run
\* and when main has returned it returns the present instant of the clock.
C21_LatchedUntilMainReturns ==
    /\ LatchHeld => now = run.latch[1]
    /\ (pc = "idle" \/ (pc = "breathe" /\ stats.breaths = run.breaths0)) =>
          now = clock

\* A main run of two breaths or more has returned, and the clock has
\* advanced since its last breath started.
C21_Witness ==
    /\ pc = "idle"
    /\ run.ended > 0
    /\ run.continued > 0
    /\ run.latch # None
    /\ clock > run.latch[1]

(***************************************************************************)
(* SpecLoss: loss_rate, the percentage report_links prints for a link,     *)
(* called with any drop and sent counts up to MaxCount.  The counts are    *)
(* u64; no product here comes near 2^64.                                   *)
(***************************************************************************)

MaxCount == 7

\* fn loss_rate(drop: u64, sent: u64) -> u64
loss_rate(drop, sent) ==
    IF sent = 0 THEN 0
    ELSE (drop * 100) \div (drop + sent)

InitLoss ==
    /\ NewEngine
    /\ loss \in [drop : 0..MaxCount, sent : 0..MaxCount, rate : {None}]

\* The call of loss_rate returns.
LossRate ==
    /\ loss.rate = None
    /\ loss' = [loss EXCEPT !.rate = Some(loss_rate(loss.drop, loss.sent))]
    /\ UNCHANGED <<app_table, link_table, inhale, exhale, stats, monotonic_now,
                   lastfrees, sleep, clock, pc, run, call>>

NextLoss == LossRate

SpecLoss == InitLoss /\ [][NextLoss]_vars

\* C22: loss_rate(d, n) is d * 100 / (d + n), rounded down, when d + n > 0,
\* and 0 when d + n = 0; so it is 0 when d = 0 and 100 when n = 0 < d.
C22_LossRate ==
    loss.rate # None =>
        loss.rate[1] = IF loss.drop + loss.sent > 0
                       THEN (loss.drop * 100) \div (loss.drop + loss.sent)
                       ELSE 0

\* C22 for the calls with sent > 0 or drop = 0.
C22_LossRateWhenSent ==
    (loss.rate # None /\ (loss.sent > 0 \/ loss.drop = 0)) =>
        loss.rate[1] = IF loss.drop + loss.sent > 0
                       THEN (loss.drop * 100) \div (loss.drop + loss.sent)
                       ELSE 0

\* What the code returns when nothing was sent.
C22_NothingSentGivesZero ==
    (loss.rate # None /\ loss.sent = 0) => loss.rate[1] = 0

(***************************************************************************)
(* Claims about the hooks a breath calls, under SpecMain.                  *)
(***************************************************************************)

\* Every name in inhale is a live app that advertises pull and every name in
\* exhale is a live app that advertises push, unless a call has panicked.
ScheduledAdvertise ==
    pc # "panicked" =>
        /\ Range(inhale) \subseteq PullApps
        /\ Range(exhale) \subseteq PushApps

\* This step is a pass of a loop of breathe: a hook call, or a panic.
PassStep == pc \in {"pull", "push"} /\ (pc' # pc \/ run' # run)

\* This pass of a loop of breathe does not panic.
PassReturns == PassStep => pc' # "panicked"

\* This pass of a loop of breathe finds its app, and panics when, and only
\* when, the app does not implement the hook.
PassFindsApp ==
    /\ (PassStep /\ pc = "pull") =>
          /\ inhale[run.idx] \in DOMAIN app_table
          /\ pc' = "panicked" <=> ~app_table[inhale[run.idx]].app.pull
    /\ (PassStep /\ pc = "push") =>
          /\ exhale[run.idx] \in DOMAIN app_table
          /\ pc' = "panicked" <=> ~app_table[exhale[run.idx]].app.push

\* C23: the apps in inhale are live and advertise pull and the apps in exhale
\* are live and advertise push, and no pass of a loop of breathe panics: it
\* finds its app and the app implements the hook it calls.
C23_BreathNeverPanics == []ScheduledAdvertise /\ [][PassReturns]_vars

\* C23 as the code has it: the apps in inhale are live and advertise pull
\* and the apps in exhale are live and advertise push, so a pass of a loop
\* of breathe finds its app; it panics when, and only when, the app
\* advertises the hook and does not implement it.
C23_PanicsOnlyUnimplemented == []ScheduledAdvertise /\ [][PassFindsApp]_vars

\* A breath has called two hooks or more in a network whose last configure
\* call stopped an app of the network before.
C23_Witness ==
    /\ pc = "count"
    /\ Len(run.hooks) > 1
    /\ Returned
    /\ \E name \in AppNames : call.stops[name] > 0

=============================================================================
